---------------------------- MODULE Spec2Model ----------------------------
(***************************************************************************)
(* CarDealScout: the listing-analysis pipeline (analyzeCarListing in       *)
(* services/geminiService.ts) and the App component's handlers that drive  *)
(* it (App.tsx).                                                           *)
(*                                                                         *)
(* Text is a sequence of units.  A unit is one character of the text       *)
(* ("{", ":", a digit, a quote, a newline) or an indivisible run of        *)
(* characters that no code path looks inside ("FENCE", "json", a word).      *)
(* JSON values are tagged records:                                         *)
(*   [t |-> "str", s |-> units]       a string                             *)
(*   [t |-> "num", s |-> digits]      a number                             *)
(*   [t |-> "null"]                   null                                 *)
(*   [t |-> "undef"]                  JavaScript's undefined               *)
(*   [t |-> "arr", a |-> values]      an array                             *)
(*   [t |-> "obj", o |-> [key -> value]]  an object, keys are unit seqs    *)
(***************************************************************************)
EXTENDS Integers, Sequences, FiniteSets, TLC

VARIABLES
    \* ---- App component state (App.tsx 65-74)
    url,            \* the URL input's value
    isAnalyzing,
    analysis,       \* the displayed CarAnalysis, or null
    error,          \* the displayed error text (a string value), or null
    showHistory,
    token,          \* the session token (a string value), or null
    savedDeals,     \* the deals shown in the history view
    isSaving,       \* a saveDeal POST is in flight
    user,           \* the signed-in user, or null
    \* ---- Auth component state (Auth.tsx 13-14); the component is mounted
    \* ---- while the App holds no token
    authLoading,    \* Auth's isLoading
    authError,      \* Auth's error (a string value), or null
    \* ---- localStorage: a string value, or null for an absent key
    storedToken,    \* localStorage 'token'
    storedUser,     \* localStorage 'user'
    \* ---- one analyzeCarListing call (geminiService.ts 39-137)
    pc,             \* where the call is suspended: "idle", "model", "delay", "decode", "recall"
    reqUrl,         \* the url argument of the call
    retryCount,     \* makeRequest's parameter
    rec,            \* makeRequest's local `analysis`
    timer,          \* ms left on the pending setTimeout, -1 when none is pending
    outcome,        \* how the promise returned by analyzeCarListing settled
    \* ---- what the outside world saw of the call
    modelRequests,  \* the requests sent to ai.models.generateContent, in order
    attempts,       \* how each model attempt ended
    parsed,         \* the value JSON.parse returned for the attempt that parsed
    decodeCalls,    \* the VINs sent to the decode service
    recallCalls,    \* the make/model/year sent to the recall service
    decodeAnswer,   \* what the decode service answered, NoValue until it does
    recallAnswer,   \* what the recall service answered, NoValue until it does
    vinErrLogged,   \* console.error("Error fetching VIN data:", ...) ran
    submits,        \* analyses started so far
    prevRetried,    \* the analysis before this one used its retry
    abandoned,      \* the user left the analysis while its call was in flight
    analysisSource, \* the listing URL the displayed analysis was made from, or null
    dealFetches,    \* the GET /api/deals requests in flight: the token each carries
    posts,          \* the POST /api/deals requests sent so far
    authAnswer,     \* what the session endpoint answered to the mounted Auth, NoValue until it does
    saveAnswer,     \* what the deal store answered to the last POST, NoValue until it does
    emptySubmitted, \* handleAnalyze ran with an empty url since the last analysis started
    \* ---- the fence-stripping and parsing step taken alone
    pText,          \* a JSON text t
    pStyle,         \* how t is wrapped in code fences
    pPlain,         \* the step's result on t
    pFenced         \* the step's result on the wrapped t

appVars   == <<url, isAnalyzing, analysis, error, showHistory, token, savedDeals, isSaving, user>>
authVars  == <<authLoading, authError>>
storeVars == <<storedToken, storedUser>>
callVars  == <<pc, reqUrl, retryCount, rec, timer, outcome>>
worldVars == <<modelRequests, attempts, parsed, decodeCalls, recallCalls,
               decodeAnswer, recallAnswer, vinErrLogged, submits,
               prevRetried, abandoned, analysisSource, dealFetches, posts,
               authAnswer, saveAnswer, emptySubmitted>>
parseVars == <<pText, pStyle, pPlain, pFenced>>
vars      == <<appVars, authVars, storeVars, callVars, worldVars, parseVars>>

-----------------------------------------------------------------------------
(* Bounds and program constants *)

MaxSubmits == 2

MaxSaves == 1

MaxFetches == 1

VinLength == 17

RetryDelayMs == 2000

MaxRetries == 1

\* a call that takes over the retry count of the call before it
CarriedRetryCount == retryCount

\* makeRequest's default argument (line 40), used by the call of line 136
InitialRetryCount == 0

TickMs == 1000

-----------------------------------------------------------------------------
(* Values *)

NoValue == [t |-> "none"]
Undefined == [t |-> "undef"]
NullV == [t |-> "null"]
StrV(s) == [t |-> "str", s |-> s]
NumV(s) == [t |-> "num", s |-> s]
ArrV(a) == [t |-> "arr", a |-> a]
ObjV(o) == [t |-> "obj", o |-> o]
EmptyObj == [k \in {} |-> NullV]

\* o[k], or undefined when the object has no such property
Get(v, k) == IF v.t = "obj" /\ <<k>> \in DOMAIN v.o THEN v.o[<<k>>] ELSE Undefined

\* o with property k set to v
Put(o, k, v) == [x \in (DOMAIN o) \cup {k} |-> IF x = k THEN v ELSE o[x]]

\* JavaScript truthiness of a value
Truthy(v) ==
    CASE v.t = "undef" -> FALSE
      [] v.t = "null"  -> FALSE
      [] v.t = "str"   -> Len(v.s) > 0
      [] v.t = "num"   -> v.s # <<"0">>
      [] OTHER         -> TRUE

\* the .length property: defined on strings and arrays only
LengthOf(v) ==
    CASE v.t = "str" -> Len(v.s)
      [] v.t = "arr" -> Len(v.a)
      [] OTHER       -> -1

-----------------------------------------------------------------------------
(* String.prototype.includes, replace (first match), trim *)

Max(a, b) == IF a >= b THEN a ELSE b

Includes(s, pat) ==
    \E i \in 1..(Len(s) - Len(pat) + 1) : SubSeq(s, i, i + Len(pat) - 1) = pat

\* the index of the first occurrence of pat in s, 0 when there is none
FirstIndex(s, pat) ==
    IF Includes(s, pat)
    THEN CHOOSE i \in 1..(Len(s) - Len(pat) + 1) :
            /\ SubSeq(s, i, i + Len(pat) - 1) = pat
            /\ \A j \in 1..(i - 1) : SubSeq(s, j, j + Len(pat) - 1) # pat
    ELSE 0

\* s.replace(/pat\n?/, ""): the first occurrence of pat, with the newline
\* that follows it when there is one, is removed
ReplaceFirst(s, pat) ==
    LET i == FirstIndex(s, pat)
        e == i + Len(pat)
        after == IF e <= Len(s) /\ s[e] = "\n" THEN e + 1 ELSE e
    IN IF i = 0 THEN s ELSE SubSeq(s, 1, i - 1) \o SubSeq(s, after, Len(s))

IsWs(c) == c \in {"\n", " "}

RECURSIVE SkipWs(_, _)
SkipWs(s, i) == IF i <= Len(s) /\ IsWs(s[i]) THEN SkipWs(s, i + 1) ELSE i

RECURSIVE SkipWsBack(_, _)
SkipWsBack(s, i) == IF i >= 1 /\ IsWs(s[i]) THEN SkipWsBack(s, i - 1) ELSE i

Trim(s) == SubSeq(s, SkipWs(s, 1), SkipWsBack(s, Len(s)))

Fence == <<"FENCE">>
JsonFence == <<"FENCE", "json">>

\* geminiService.ts line 92
CleanFences(text) == Trim(ReplaceFirst(ReplaceFirst(text, JsonFence), Fence))

-----------------------------------------------------------------------------
(* JSON.parse *)

Digits == {"0", "1", "2", "3", "4", "5", "6", "7", "8", "9"}

Fail == [ok |-> FALSE]
Ok(v, n) == [ok |-> TRUE, val |-> v, next |-> n]

\* the index of the quote closing a string whose content starts at i;
\* 0 when the string is unterminated or holds a raw newline
RECURSIVE StringEnd(_, _)
StringEnd(s, i) ==
    IF i > Len(s) THEN 0
    ELSE IF s[i] = "\"" THEN i
    ELSE IF s[i] = "\n" THEN 0
    ELSE StringEnd(s, i + 1)

RECURSIVE DigitsEnd(_, _)
DigitsEnd(s, i) == IF i <= Len(s) /\ s[i] \in Digits THEN DigitsEnd(s, i + 1) ELSE i

RECURSIVE ParseValue(_, _)
RECURSIVE ParseElements(_, _, _)
RECURSIVE ParseMembers(_, _, _)

ParseValue(s, i0) ==
    LET i == SkipWs(s, i0) IN
    IF i > Len(s) THEN Fail
    ELSE IF s[i] = "\"" THEN
        LET j == StringEnd(s, i + 1) IN
        IF j = 0 THEN Fail ELSE Ok(StrV(SubSeq(s, i + 1, j - 1)), j + 1)
    ELSE IF s[i] \in Digits THEN
        LET j == DigitsEnd(s, i) IN
        IF s[i] = "0" /\ j > i + 1 THEN Fail ELSE Ok(NumV(SubSeq(s, i, j - 1)), j)
    ELSE IF s[i] = "null" THEN Ok(NullV, i + 1)
    ELSE IF s[i] = "[" THEN
        LET k == SkipWs(s, i + 1) IN
        IF k <= Len(s) /\ s[k] = "]" THEN Ok(ArrV(<<>>), k + 1)
        ELSE ParseElements(s, i + 1, <<>>)
    ELSE IF s[i] = "{" THEN
        LET k == SkipWs(s, i + 1) IN
        IF k <= Len(s) /\ s[k] = "}" THEN Ok(ObjV(EmptyObj), k + 1)
        ELSE ParseMembers(s, i + 1, EmptyObj)
    ELSE Fail

ParseElements(s, i, acc) ==
    LET r == ParseValue(s, i) IN
    IF ~r.ok THEN Fail
    ELSE LET k == SkipWs(s, r.next) IN
         IF k > Len(s) THEN Fail
         ELSE IF s[k] = "," THEN ParseElements(s, k + 1, Append(acc, r.val))
         ELSE IF s[k] = "]" THEN Ok(ArrV(Append(acc, r.val)), k + 1)
         ELSE Fail

ParseMembers(s, i, acc) ==
    LET q == SkipWs(s, i) IN
    IF q > Len(s) \/ s[q] # "\"" THEN Fail
    ELSE LET j == StringEnd(s, q + 1) IN
         IF j = 0 THEN Fail
         ELSE LET key == SubSeq(s, q + 1, j - 1)
                  c == SkipWs(s, j + 1)
              IN IF c > Len(s) \/ s[c] # ":" THEN Fail
                 ELSE LET r == ParseValue(s, c + 1) IN
                      IF ~r.ok THEN Fail
                      ELSE LET k == SkipWs(s, r.next) IN
                           IF k > Len(s) THEN Fail
                           ELSE IF s[k] = "," THEN ParseMembers(s, k + 1, Put(acc, key, r.val))
                           ELSE IF s[k] = "}" THEN Ok(ObjV(Put(acc, key, r.val)), k + 1)
                           ELSE Fail

\* JSON.parse(text): the value, or a thrown SyntaxError
JSONparse(text) ==
    LET r == ParseValue(text, 1) IN
    IF r.ok /\ SkipWs(text, r.next) = Len(text) + 1
    THEN [ok |-> TRUE, val |-> r.val]
    ELSE [ok |-> FALSE]

\* The message of the SyntaxError JSON.parse throws is engine-defined: some
\* engines name only the offending token, others quote the source text.
SyntaxErrorMessages(text) ==
    { <<"Unexpected", "token">>,
      <<"Unexpected", "token", ",">> \o text \o <<"is", "not", "valid", "JSON">> }

\* lines 92-94 taken together: the parsed value, or a failure
CleanAndParse(text) == JSONparse(CleanFences(text))

-----------------------------------------------------------------------------
(* Texts the services can answer with *)

Str(w) == <<"\"">> \o w \o <<"\"">>
Member(k, v) == Str(<<k>>) \o <<":">> \o v

RECURSIVE JoinWith(_, _)
JoinWith(parts, sep) ==
    IF Len(parts) = 0 THEN <<>>
    ELSE IF Len(parts) = 1 THEN parts[1]
    ELSE parts[1] \o sep \o JoinWith(Tail(parts), sep)

Obj(members) == <<"{">> \o JoinWith(members, <<",">>) \o <<"}">>
Arr(elems) == <<"[">> \o JoinWith(elems, <<",">>) \o <<"]">>

\* JSON.stringify(v): the members of an object whose value is undefined are
\* left out; the strings of this model need no escapes
RECURSIVE JSONstringify(_)
RECURSIVE StringifyMembers(_, _)
StringifyMembers(o, keys) ==
    IF keys = {} THEN <<>>
    ELSE LET k == CHOOSE x \in keys : TRUE
             rest == StringifyMembers(o, keys \ {k})
         IN IF o[k].t = "undef" THEN rest
            ELSE << Str(k) \o <<":">> \o JSONstringify(o[k]) >> \o rest

JSONstringify(v) ==
    CASE v.t = "str"  -> Str(v.s)
      [] v.t = "num"  -> v.s
      [] v.t = "null" -> <<"null">>
      [] v.t = "arr"  -> Arr([i \in 1..Len(v.a) |-> JSONstringify(v.a[i])])
      [] v.t = "obj"  -> Obj(StringifyMembers(v.o, DOMAIN v.o))

RECURSIVE Rep(_, _)
Rep(c, n) == IF n <= 0 THEN <<>> ELSE <<c>> \o Rep(c, n - 1)

\* the vin member of a listing: absent, or a string of n characters
VinMember(n) == IF n < 0 THEN <<>> ELSE << Member("vin", Str(Rep("V", n))) >>

VinDataMember(present) ==
    IF present
    THEN << Member("vinData", Obj(<< Member("accidentHistory", Str(<<"none", " ", "found">>)),
                                     Member("titleStatus", Str(<<"Clean">>)) >>)) >>
    ELSE <<>>

PlainPitch == <<"Open", " ", "low", ".">>
FencedPitch == <<"Say", ":", " ", "FENCE", "offer", "FENCE">>

\* a JSON text of the shape the prompt asks for (lines 56-82)
Listing(vinLen, hasVinData, pitch) ==
    Obj(<< Member("make", Str(<<"Toyota">>)),
           Member("model", Str(<<"Camry">>)),
           Member("year", <<"2", "0", "1", "9">>),
           Member("price", <<"9", "5", "0", "0">>),
           Member("mileage", <<"4", "2", "0", "0", "0">>),
           Member("location", Str(<<"Austin">>)),
           Member("condition", Str(<<"Used">>)) >>
        \o VinMember(vinLen) \o
        << Member("dealRating", Str(<<"Good">>)),
           Member("dealScore", <<"7", "2">>),
           Member("summary", Str(<<"Fair", " ", "price">>)),
           Member("redFlags", Arr(<< Str(<<"no", " ", "title">>) >>)),
           Member("pros", Arr(<< Str(<<"low", " ", "miles">>), Str(<<"one", " ", "owner">>) >>)),
           Member("cons", Arr(<<>>)),
           Member("marketComparison",
                  Obj(<< Member("averagePrice", <<"9", "9", "0", "0">>),
                         Member("lowPrice", <<"8", "0", "0", "0">>),
                         Member("highPrice", <<"1", "2", "0", "0", "0">>),
                         Member("similarCarsCount", <<"1", "4">>) >>)),
           Member("negotiationPitch", Str(pitch)) >>
        \o VinDataMember(hasVinData))

\* how a text is wrapped in markdown code fences
FenceStyles == {"json-newline", "json", "bare-newline", "bare"}

Wrap(style, t) ==
    CASE style = "json-newline" -> <<"FENCE", "json", "\n">> \o t \o <<"\n", "FENCE">>
      [] style = "json"         -> <<"FENCE", "json">> \o t \o <<"FENCE">>
      [] style = "bare-newline" -> <<"FENCE", "\n">> \o t \o <<"\n", "FENCE">>
      [] style = "bare"         -> <<"FENCE">> \o t \o <<"FENCE">>

\* the lengths of the vin the model may report; -1 is no vin at all
VinLengths == {-1, 0, VinLength - 1, VinLength, VinLength + 1}

ShortObject == Obj(<< Member("make", Str(<<"Toyota">>)) >>)

\* JSON texts for the fence-stripping step
JsonTexts ==
    { Listing(n, d, PlainPitch) : n \in {-1, VinLength}, d \in BOOLEAN }
    \cup { Listing(VinLength, TRUE, FencedPitch), ShortObject, <<"null">>,
           <<"\n">> \o ShortObject \o <<" ">> }

-----------------------------------------------------------------------------
(* What the three services can answer *)

Urls == { <<"https://cars.example/1">>, <<"https://cars.example/2">> }

RateLimitError ==
    [kind |-> "error", status |-> "429",
     message |-> <<"got", "status", ":", "4", "2", "9", "Too", "Many", "Requests">>]

ServerError ==
    [kind |-> "error", status |-> "500",
     message |-> <<"got", "status", ":", "5", "0", "0", "Internal">>]

\* the response texts of the model: listings with every vin length, with and
\* without vinData, fenced and not, JSON of another shape, prose, nothing
ModelTexts ==
    { Listing(n, d, PlainPitch) : n \in VinLengths, d \in BOOLEAN }
    \cup { Wrap(st, Listing(VinLength, TRUE, PlainPitch)) : st \in {"json-newline", "bare-newline"} }
    \cup { Listing(VinLength, FALSE, FencedPitch),
           ShortObject,
           <<"null">>,
           <<"Error", " ", "4", "2", "9", ":", " ", "page", " ", "blocked">>,
           <<"Sorry", ",", " ", "no", " ", "listing">>,
           <<>> }

ModelResponses ==
    { RateLimitError, ServerError } \cup { [kind |-> "text", text |-> t] : t \in ModelTexts }

FactoryData ==
    ObjV((<<"Manufacturer">> :> StrV(<<"Honda">>))
         @@ (<<"PlantCountry">> :> StrV(<<"JAPAN">>))
         @@ (<<"BodyClass">> :> StrV(<<"Sedan">>))
         @@ (<<"EngineHP">> :> StrV(<<"1", "5", "8">>))
         @@ (<<"FuelTypePrimary">> :> StrV(<<"Gasoline">>))
         @@ (<<"Make">> :> StrV(<<"HONDA">>)))

\* a first result that lacks some of the fields
SparseData == ObjV(<<"Manufacturer">> :> StrV(<<"Honda">>))

DecodeResponses ==
    { [kind |-> "reject"],
      [kind |-> "badjson"],
      [kind |-> "json", body |-> NullV],
      [kind |-> "json", body |-> ObjV(<<"Message">> :> StrV(<<"error">>))],
      [kind |-> "json", body |-> ObjV(<<"Results">> :> ArrV(<<>>))],
      [kind |-> "json", body |-> ObjV(<<"Results">> :> ArrV(<<FactoryData>>))],
      [kind |-> "json", body |-> ObjV(<<"Results">> :> ArrV(<<SparseData, FactoryData>>))] }

Recall(campaign) ==
    ObjV((<<"NHTSACampaignNumber">> :> StrV(<<campaign>>))
         @@ (<<"Summary">> :> StrV(<<"airbag">>)))

RecallResponses ==
    { [kind |-> "reject"],
      [kind |-> "badjson"],
      [kind |-> "json", body |-> NullV],
      [kind |-> "json", body |-> ObjV(<<"Count">> :> NumV(<<"0">>))],
      [kind |-> "json", body |-> ObjV(<<"results">> :> ArrV(<<>>))],
      [kind |-> "json", body |-> ObjV(<<"results">> :> ArrV(<<Recall("20V001"), Recall("19V555")>>))] }

-----------------------------------------------------------------------------
(* The state as one record, so that a handler is a function from state to  *)
(* state and an action applies the whole handler.                          *)

Cur ==
    [url |-> url, isAnalyzing |-> isAnalyzing, analysis |-> analysis, error |-> error,
     showHistory |-> showHistory,
     pc |-> pc, reqUrl |-> reqUrl, retryCount |-> retryCount, rec |-> rec, timer |-> timer,
     outcome |-> outcome,
     modelRequests |-> modelRequests, attempts |-> attempts, parsed |-> parsed,
     decodeCalls |-> decodeCalls, recallCalls |-> recallCalls,
     decodeAnswer |-> decodeAnswer, recallAnswer |-> recallAnswer,
     vinErrLogged |-> vinErrLogged, submits |-> submits,
     token |-> token, savedDeals |-> savedDeals, isSaving |-> isSaving,
     prevRetried |-> prevRetried, abandoned |-> abandoned,
     analysisSource |-> analysisSource, dealFetches |-> dealFetches, posts |-> posts,
     user |-> user, authLoading |-> authLoading, authError |-> authError,
     storedToken |-> storedToken, storedUser |-> storedUser,
     authAnswer |-> authAnswer, saveAnswer |-> saveAnswer,
     emptySubmitted |-> emptySubmitted]

Becomes(c) ==
    /\ url' = c.url
    /\ isAnalyzing' = c.isAnalyzing
    /\ analysis' = c.analysis
    /\ error' = c.error
    /\ showHistory' = c.showHistory
    /\ pc' = c.pc
    /\ reqUrl' = c.reqUrl
    /\ retryCount' = c.retryCount
    /\ rec' = c.rec
    /\ timer' = c.timer
    /\ outcome' = c.outcome
    /\ modelRequests' = c.modelRequests
    /\ attempts' = c.attempts
    /\ parsed' = c.parsed
    /\ decodeCalls' = c.decodeCalls
    /\ recallCalls' = c.recallCalls
    /\ decodeAnswer' = c.decodeAnswer
    /\ recallAnswer' = c.recallAnswer
    /\ vinErrLogged' = c.vinErrLogged
    /\ submits' = c.submits
    /\ token' = c.token
    /\ savedDeals' = c.savedDeals
    /\ isSaving' = c.isSaving
    /\ prevRetried' = c.prevRetried
    /\ abandoned' = c.abandoned
    /\ analysisSource' = c.analysisSource
    /\ dealFetches' = c.dealFetches
    /\ user' = c.user
    /\ authLoading' = c.authLoading
    /\ authError' = c.authError
    /\ storedToken' = c.storedToken
    /\ storedUser' = c.storedUser
    /\ authAnswer' = c.authAnswer
    /\ saveAnswer' = c.saveAnswer
    /\ emptySubmitted' = c.emptySubmitted
    /\ posts' = c.posts
    /\ UNCHANGED parseVars

-----------------------------------------------------------------------------
(* App.tsx: handleAnalyze *)

RateLimitMessage == <<"API Rate Limit Reached. Please wait about 60 seconds and try again.">>
GenericMessage == <<"Something went wrong. Please try again.">>

\* App.tsx 135-139: the text handleAnalyze's catch puts in the error state
DisplayedError(message) ==
    IF Includes(message, <<"4", "2", "9">>) \/ Includes(message, <<"quota">>)
    THEN RateLimitMessage
    ELSE IF message # <<>> THEN message ELSE GenericMessage

\* analyzeCarListing resolved: App.tsx 132-133 and the finally of 140-142
Resolved(c, value) ==
    [c EXCEPT !.pc = "idle",
              !.outcome = [kind |-> "ok", val |-> value],
              !.analysis = value,
              !.analysisSource = StrV(c.reqUrl),
              !.isAnalyzing = FALSE]

\* analyzeCarListing rejected: App.tsx 134-139 and the finally of 140-142
Rejected(c, message) ==
    [c EXCEPT !.pc = "idle",
              !.outcome = [kind |-> "err", message |-> message],
              !.error = StrV(DisplayedError(message)),
              !.isAnalyzing = FALSE]

-----------------------------------------------------------------------------
(* geminiService.ts: analyzeCarListing / makeRequest *)

\* the generateContent request of lines 42-86: its only varying part is the url
Request(u) ==
    [model |-> "gemini-2.5-flash", url |-> u, tools |-> {"urlContext", "googleSearch"}]

\* the retry test without its budget
ShouldRetryUnbounded(message, count) == Includes(message, <<"4", "2", "9">>)

\* the retry test with a budget of one more
ShouldRetryTwice(message, count) == Includes(message, <<"4", "2", "9">>) /\ count <= MaxRetries

\* line 127
ShouldRetry(message, count) == Includes(message, <<"4", "2", "9">>) /\ count < MaxRetries

\* the catch block of lines 125-133; att records how the attempt ended
Caught(c, message, att) ==
    LET c1 == [c EXCEPT !.attempts = Append(@, [kind |-> att, message |-> message])] IN
    IF ShouldRetry(message, c.retryCount)
    THEN [c1 EXCEPT !.pc = "delay", !.timer = RetryDelayMs]
    ELSE Rejected(c1, message)

\* the gate without its length test
VinGateAnyLength(a) == Truthy(Get(a, "vin"))

\* line 97
VinGate(a) == Truthy(Get(a, "vin")) /\ LengthOf(Get(a, "vin")) = VinLength

\* lines 94-99 and 124: the parsed value a, up to the decode fetch or the return
AfterParse(c, a) ==
    LET c1 == [c EXCEPT !.attempts = Append(@, [kind |-> "parsed", message |-> <<>>]),
                        !.parsed = a,
                        !.rec = a]
    IN IF VinGate(a)
       THEN [c1 EXCEPT !.pc = "decode", !.decodeCalls = Append(@, Get(a, "vin"))]
       ELSE Resolved(c1, a)

\* an inner catch that lets the error escape to the caller
EnrichmentEscapes(c) == Rejected([c EXCEPT !.vinErrLogged = TRUE], <<"Failed to fetch">>)

\* an enrichment error that reaches the outer catch with a 429 in its message
EnrichmentRetried(c) ==
    Caught([c EXCEPT !.vinErrLogged = TRUE],
           <<"Unexpected token", " ", "4", "2", "9", " ", "Too Many Requests">>, "enrichment")

\* the inner catch of lines 119-121, then the return of line 124
EnrichmentCaught(c) == Resolved([c EXCEPT !.vinErrLogged = TRUE], c.rec)

\* ...obj, the spread of a value in an object literal: an object's own
\* properties; numbers, null and undefined have none
Spread(v) == IF v.t = "obj" THEN v.o ELSE EmptyObj

\* the merge without the spread of the existing vinData
MergeFactoryNoSpread(vinData, data) ==
    ObjV(Put(Put(Put(Put(Put(EmptyObj,
        <<"manufacturer">>, Get(data, "Manufacturer")),
        <<"plantCountry">>, Get(data, "PlantCountry")),
        <<"bodyClass">>, Get(data, "BodyClass")),
        <<"engineHP">>, Get(data, "EngineHP")),
        <<"fuelType">>, Get(data, "FuelTypePrimary")))

\* lines 106-113
MergeFactory(vinData, data) ==
    ObjV(Put(Put(Put(Put(Put(Spread(vinData),
        <<"manufacturer">>, Get(data, "Manufacturer")),
        <<"plantCountry">>, Get(data, "PlantCountry")),
        <<"bodyClass">>, Get(data, "BodyClass")),
        <<"engineHP">>, Get(data, "EngineHP")),
        <<"fuelType">>, Get(data, "FuelTypePrimary")))

\* x[0] of a value that is neither null nor undefined
First(x) == IF x.t = "arr" /\ Len(x.a) >= 1 THEN x.a[1] ELSE Undefined

Nullish(v) == v.t \in {"null", "undef"}

\* a decode step that sends the recall fetch and returns without awaiting it
AfterDecodeReturnsEarly(c, d) ==
    LET c0 == [c EXCEPT !.decodeAnswer = d] IN
    IF d.kind # "json" \/ Nullish(d.body) \/ Nullish(Get(d.body, "Results"))
    THEN EnrichmentCaught(c0)
    ELSE LET data == First(Get(d.body, "Results"))
             r1 == IF Truthy(Get(c.rec, "vinData"))
                   THEN c.rec
                   ELSE ObjV(Put(c.rec.o, <<"vinData">>, ObjV(EmptyObj)))
             c1 == [c0 EXCEPT !.rec = r1]
         IN IF Nullish(data)
            THEN EnrichmentCaught(c1)
            ELSE LET r2 == ObjV(Put(r1.o, <<"vinData">>, MergeFactory(Get(r1, "vinData"), data)))
                 IN Resolved([c1 EXCEPT !.rec = r2,
                                        !.recallCalls = Append(@, [make |-> Get(r2, "make"),
                                                                   model |-> Get(r2, "model"),
                                                                   modelYear |-> Get(r2, "year")])],
                             r2)

\* lines 100-116: the decode answer d, up to the recall fetch or the inner catch
AfterDecode(c, d) ==
    LET c0 == [c EXCEPT !.decodeAnswer = d] IN
    IF d.kind # "json" \/ Nullish(d.body) \/ Nullish(Get(d.body, "Results"))
    THEN EnrichmentCaught(c0)
    ELSE LET data == First(Get(d.body, "Results"))
             \* line 104
             r1 == IF Truthy(Get(c.rec, "vinData"))
                   THEN c.rec
                   ELSE ObjV(Put(c.rec.o, <<"vinData">>, ObjV(EmptyObj)))
             c1 == [c0 EXCEPT !.rec = r1]
         IN IF Nullish(data)
            THEN EnrichmentCaught(c1)
            ELSE LET r2 == ObjV(Put(r1.o, <<"vinData">>, MergeFactory(Get(r1, "vinData"), data)))
                 IN [c1 EXCEPT !.rec = r2,
                               !.pc = "recall",
                               !.recallCalls = Append(@, [make |-> Get(r2, "make"),
                                                          model |-> Get(r2, "model"),
                                                          modelYear |-> Get(r2, "year")])]

\* a recall step whose failure puts the parsed record back
AfterRecallRollsBack(c, r) ==
    LET c0 == [c EXCEPT !.recallAnswer = r] IN
    IF r.kind # "json" \/ Nullish(r.body)
    THEN Resolved([c0 EXCEPT !.vinErrLogged = TRUE, !.rec = c.parsed], c.parsed)
    ELSE LET results == Get(r.body, "results")
             recalls == IF Truthy(results) THEN results ELSE ArrV(<<>>)
             vd == ObjV(Put(Get(c.rec, "vinData").o, <<"recalls">>, recalls))
             r3 == ObjV(Put(c.rec.o, <<"vinData">>, vd))
         IN Resolved([c0 EXCEPT !.rec = r3], r3)

\* a recall step that stores recallJson.results as it comes
AfterRecallNoDefault(c, r) ==
    LET c0 == [c EXCEPT !.recallAnswer = r] IN
    IF r.kind # "json" \/ Nullish(r.body)
    THEN EnrichmentCaught(c0)
    ELSE LET results == Get(r.body, "results")
             vd == ObjV(Put(Get(c.rec, "vinData").o, <<"recalls">>, results))
             r3 == ObjV(Put(c.rec.o, <<"vinData">>, vd))
         IN Resolved([c0 EXCEPT !.rec = r3], r3)

\* lines 117-124: the recall answer r, up to the return
AfterRecall(c, r) ==
    LET c0 == [c EXCEPT !.recallAnswer = r] IN
    IF r.kind # "json" \/ Nullish(r.body)
    THEN EnrichmentCaught(c0)
    ELSE LET results == Get(r.body, "results")
             recalls == IF Truthy(results) THEN results ELSE ArrV(<<>>)
             vd == ObjV(Put(Get(c.rec, "vinData").o, <<"recalls">>, recalls))
             r3 == ObjV(Put(c.rec.o, <<"vinData">>, vd))
         IN Resolved([c0 EXCEPT !.rec = r3], r3)

-----------------------------------------------------------------------------
(* Actions *)

\* the URL input's onChange (App.tsx 262)
SetUrl(u) ==
    /\ Truthy(token)
    /\ url # u
    /\ Becomes([Cur EXCEPT !.url = u])

\* an analysis can be started although one is running
AnalyzeAlwaysAvailable == Truthy(token)

\* The App renders its page only with a token (194-196).  The form's submit
\* button is disabled while isAnalyzing (267); the Try Again button is
\* rendered while error is set (366, 377).
AnalyzeAvailable == Truthy(token) /\ (~isAnalyzing \/ Truthy(error))

\* App.tsx 121-131 and geminiService.ts 39-42, up to the first await
HandleAnalyze ==
    /\ AnalyzeAvailable
    /\ url # <<>>
    /\ submits < MaxSubmits
    /\ Becomes([Cur EXCEPT !.isAnalyzing = TRUE,
                           !.error = NullV,
                           !.analysis = NullV,
                           !.showHistory = FALSE,
                           !.pc = "model",
                           !.reqUrl = url,
                           !.retryCount = InitialRetryCount,
                           !.rec = NoValue,
                           !.timer = -1,
                           !.outcome = NoValue,
                           !.modelRequests = <<Request(url)>>,
                           !.attempts = <<>>,
                           !.parsed = NoValue,
                           !.decodeCalls = <<>>,
                           !.recallCalls = <<>>,
                           !.decodeAnswer = NoValue,
                           !.recallAnswer = NoValue,
                           !.vinErrLogged = FALSE,
                           !.prevRetried = (retryCount > 0),
                           !.abandoned = FALSE,
                           !.analysisSource = NullV,
                           !.emptySubmitted = FALSE,
                           !.submits = submits + 1])

\* a handleAnalyze without the test of line 123
SubmitEmptyAnalyzes ==
    /\ Truthy(token)
    /\ Truthy(error)
    /\ url = <<>>
    /\ submits < MaxSubmits
    /\ Becomes([Cur EXCEPT !.emptySubmitted = TRUE,
                           !.isAnalyzing = TRUE,
                           !.error = NullV,
                           !.analysis = NullV,
                           !.showHistory = FALSE,
                           !.pc = "model",
                           !.reqUrl = url,
                           !.outcome = NoValue,
                           !.attempts = <<>>,
                           !.modelRequests = <<Request(url)>>,
                           !.submits = submits + 1])

\* App.tsx 121-123: handleAnalyze with an empty url returns at once.  The
\* form does not submit an empty required input (259); Try Again calls the
\* handler whatever the input holds (377).
SubmitEmpty ==
    /\ Truthy(token)
    /\ Truthy(error)
    /\ url = <<>>
    /\ Becomes([Cur EXCEPT !.emptySubmitted = TRUE])

\* generateContent rejects
ModelFails(resp) ==
    /\ pc = "model"
    /\ resp.kind = "error"
    /\ Becomes(Caught(Cur, resp.message,
                      IF resp.status = "429" THEN "rateLimit" ELSE "serverError"))

\* generateContent resolves with no text (lines 88-89)
ModelAnswersNothing(resp) ==
    /\ pc = "model"
    /\ resp.kind = "text"
    /\ resp.text = <<>>
    /\ Becomes(Caught(Cur, <<"No response from AI">>, "empty"))

\* generateContent resolves with a text that JSON.parse rejects (lines 92-94)
ModelAnswersUnparsable(resp) ==
    /\ pc = "model"
    /\ resp.kind = "text"
    /\ resp.text # <<>>
    /\ ~CleanAndParse(resp.text).ok
    /\ \E m \in SyntaxErrorMessages(CleanFences(resp.text)) :
          Becomes(Caught(Cur, m, "parse"))

\* generateContent resolves with a text that parses (lines 92-99, 124);
\* reading .vin of null throws a TypeError
ModelAnswersJson(resp) ==
    /\ pc = "model"
    /\ resp.kind = "text"
    /\ resp.text # <<>>
    /\ CleanAndParse(resp.text).ok
    /\ LET a == CleanAndParse(resp.text).val IN
       IF a.t = "null"
       THEN Becomes(Caught(Cur, <<"Cannot read properties of null (reading 'vin')">>, "typeError"))
       ELSE Becomes(AfterParse(Cur, a))

\* a clock that stands still
TickStalls ==
    /\ pc = "delay"
    /\ timer > 0
    /\ Becomes(Cur)

\* time passes on the pending setTimeout of line 129
Tick ==
    /\ pc = "delay"
    /\ timer > 0
    /\ Becomes([Cur EXCEPT !.timer = Max(0, timer - TickMs)])

\* the timeout of line 129 fires: line 130, makeRequest(retryCount + 1), up to its await
TimerFires ==
    /\ pc = "delay"
    /\ timer = 0
    /\ Becomes([Cur EXCEPT !.pc = "model",
                           !.timer = -1,
                           !.retryCount = retryCount + 1,
                           !.modelRequests = Append(@, Request(reqUrl))])

\* the decode fetch settles
DecodeAnswers(d) ==
    /\ pc = "decode"
    /\ Becomes(AfterDecode(Cur, d))

\* the recall fetch settles
RecallAnswers(r) ==
    /\ pc = "recall"
    /\ Becomes(AfterRecall(Cur, r))

-----------------------------------------------------------------------------
(* App.tsx: the session, the saved deals and the page's other controls *)

SessionToken == StrV(<<"token-1">>)

SessionUser == ObjV(<<"email">> :> StrV(<<"ann@example.com">>))

\* localStorage.setItem stores String(value)
ToStorage(v) ==
    CASE v.t = "str"   -> v
      [] v.t = "undef" -> StrV(<<"undefined">>)
      [] v.t = "null"  -> StrV(<<"null">>)
      [] v.t = "num"   -> StrV(v.s)
      [] OTHER         -> StrV(<<"[object Object]">>)

\* line 66: JSON.parse(localStorage.getItem('user') || 'null')
UserFromStorage(stored) ==
    JSONparse(IF Truthy(stored) THEN stored.s ELSE <<"null">>).val

\* what the session endpoint answers: { token, user } with an OK status, or
\* a failure
SessionGranted ==
    [kind |-> "json", ok |-> TRUE,
     body |-> ObjV((<<"token">> :> SessionToken) @@ (<<"user">> :> SessionUser))]

AuthFailures ==
    { [kind |-> "reject", ok |-> FALSE, body |-> NullV],
      [kind |-> "badjson", ok |-> FALSE, body |-> NullV],
      [kind |-> "badjson", ok |-> TRUE, body |-> NullV],
      [kind |-> "json", ok |-> FALSE, body |-> ObjV(<<"error">> :> StrV(<<"Invalid credentials">>))],
      [kind |-> "json", ok |-> FALSE, body |-> ObjV(EmptyObj)],
      [kind |-> "json", ok |-> FALSE, body |-> NullV] }

\* fetchSavedDeals (91-95) up to its await: the request carries the token of
\* the render the function was made in
FetchSavedDeals(c, tok) == [c EXCEPT !.dealFetches = Append(@, tok)]

\* the members of the analysis that saveDeal copies (157-170)
SaveKeys ==
    { "make", "model", "year", "price", "dealRating", "dealScore", "negotiationPitch",
      "vin", "vinData", "summary", "pros", "cons", "redFlags", "marketComparison" }

\* the body of saveDeal's POST (155-171); JSON.stringify leaves out the
\* members whose value is undefined
SaveBody(u, a) ==
    ObjV([k \in {<<"url">>} \cup { <<x>> : x \in {y \in SaveKeys : Get(a, y) # Undefined} } |->
            IF k = <<"url">> THEN StrV(u) ELSE a.o[k]])

\* a deal as the deal store returns it: what was posted, with its _id
StoredDeal ==
    ObjV(Put(SaveBody(<<"https://cars.example/0">>,
                      JSONparse(Listing(VinLength, TRUE, PlainPitch)).val).o,
             <<"_id">>, StrV(<<"d1">>)))

DealsResponses ==
    { [kind |-> "reject", ok |-> FALSE, data |-> <<>>],
      [kind |-> "http", ok |-> FALSE, data |-> <<>>],
      [kind |-> "http", ok |-> TRUE, data |-> <<>>],
      [kind |-> "http", ok |-> TRUE, data |-> <<StoredDeal>>] }

SaveResponses ==
    { [kind |-> "reject", ok |-> FALSE],
      [kind |-> "http", ok |-> FALSE],
      [kind |-> "http", ok |-> TRUE] }

\* handleAuthSuccess (App.tsx 105-110), then the effect of 85-89 for the
\* new token
HandleAuthSuccess(c, newToken, newUser) ==
    LET c1 == [c EXCEPT !.token = newToken,
                        !.user = newUser,
                        !.storedToken = ToStorage(newToken),
                        !.storedUser = ToStorage(StrV(JSONstringify(newUser)))]
    IN IF Truthy(newToken) THEN FetchSavedDeals(c1, newToken) ELSE c1

\* Auth.tsx 37-38: the catch of handleSubmit
AuthCaught(c, message) == [c EXCEPT !.authError = StrV(message)]

\* an Auth that hands over whatever the body holds, whatever the status
AfterAuthIgnoresStatus(c, resp) ==
    LET c0 == [c EXCEPT !.authAnswer = resp, !.authLoading = FALSE] IN
    HandleAuthSuccess(c0, SessionToken, SessionUser)

\* Auth.tsx 30-41: the session endpoint's answer, up to the end of handleSubmit
AfterAuth(c, resp) ==
    LET c0 == [c EXCEPT !.authAnswer = resp, !.authLoading = FALSE] IN
    CASE resp.kind = "reject"  -> AuthCaught(c0, <<"Failed to fetch">>)
      [] resp.kind = "badjson" -> AuthCaught(c0, <<"Unexpected token < in JSON at position 0">>)
      [] Nullish(resp.body)    -> AuthCaught(c0, <<"Cannot read properties of null">>)
      [] ~resp.ok              -> AuthCaught(c0, IF Truthy(Get(resp.body, "error"))
                                                  THEN Get(resp.body, "error").s
                                                  ELSE <<"Authentication failed">>)
      [] OTHER                 -> HandleAuthSuccess(c0, Get(resp.body, "token"),
                                                    Get(resp.body, "user"))

\* Auth.tsx 16-28: handleSubmit up to its await.  Auth is what the App
\* renders without a token (App.tsx 194-196); its submit button is disabled
\* while isLoading (Auth.tsx 107).
AuthSubmit ==
    /\ ~Truthy(token)
    /\ ~authLoading
    /\ Len(dealFetches) < MaxFetches
    /\ Becomes([Cur EXCEPT !.authLoading = TRUE,
                           !.authError = NullV,
                           !.authAnswer = NoValue])

\* the session endpoint grants the session
Login ==
    /\ ~Truthy(token)
    /\ authLoading
    /\ Becomes(AfterAuth(Cur, SessionGranted))

\* the session endpoint refuses, or the request fails
AuthFails(resp) ==
    /\ ~Truthy(token)
    /\ authLoading
    /\ Becomes(AfterAuth(Cur, resp))

\* a logout that leaves localStorage as it is
LogoutKeepsStorage ==
    /\ Truthy(token)
    /\ Becomes([Cur EXCEPT !.token = NullV,
                           !.user = NullV,
                           !.analysis = NullV,
                           !.analysisSource = NullV,
                           !.savedDeals = <<>>,
                           !.authAnswer = NoValue,
                           !.abandoned = (abandoned \/ isAnalyzing)])

\* handleLogout (112-119); Auth is mounted afresh
Logout ==
    /\ Truthy(token)
    /\ Becomes([Cur EXCEPT !.token = NullV,
                           !.user = NullV,
                           !.storedToken = NullV,
                           !.storedUser = NullV,
                           !.authAnswer = NoValue,
                           !.analysis = NullV,
                           !.analysisSource = NullV,
                           !.savedDeals = <<>>,
                           !.abandoned = (abandoned \/ isAnalyzing)])

\* a GET /api/deals settles (96-102)
DealsAnswer(i, resp) ==
    /\ i \in 1..Len(dealFetches)
    /\ LET c == [Cur EXCEPT !.dealFetches =
                     SubSeq(dealFetches, 1, i - 1) \o SubSeq(dealFetches, i + 1, Len(dealFetches))]
       IN Becomes(IF resp.kind = "http" /\ resp.ok
                  THEN [c EXCEPT !.savedDeals = resp.data]
                  ELSE c)

\* the header logo's onClick (203)
HeaderReset ==
    /\ Truthy(token)
    /\ Becomes([Cur EXCEPT !.analysis = NullV,
                           !.analysisSource = NullV,
                           !.showHistory = FALSE,
                           !.abandoned = (abandoned \/ isAnalyzing)])

\* the history button's onClick (213)
ToggleHistory ==
    /\ Truthy(token)
    /\ Becomes([Cur EXCEPT !.showHistory = ~showHistory])

\* a saved deal's arrow button (285, 297, 313-317)
OpenDeal(i) ==
    /\ Truthy(token)
    /\ showHistory
    /\ i \in 1..Len(savedDeals)
    /\ Becomes([Cur EXCEPT !.analysis = savedDeals[i],
                           !.analysisSource = Get(savedDeals[i], "url"),
                           !.showHistory = FALSE,
                           !.abandoned = (abandoned \/ isAnalyzing)])

\* a Save control that is there whatever the page shows
SaveAlwaysAvailable == TRUE

\* The Save button is part of the results section, rendered for
\* analysis && !isAnalyzing (388), and is disabled while isSaving (720).
SaveAvailable == Truthy(token) /\ Truthy(analysis) /\ ~isAnalyzing /\ ~isSaving

\* saveDeal (145-172) up to its await
SaveDeal ==
    /\ SaveAvailable
    /\ Len(posts) < MaxSaves
    /\ Truthy(analysis) /\ Truthy(token)
    /\ Becomes([Cur EXCEPT !.isSaving = TRUE,
                           !.saveAnswer = NoValue,
                           !.posts = Append(@, [token |-> token,
                                                body |-> SaveBody(url, analysis),
                                                saved |-> analysis,
                                                source |-> analysisSource])])

\* a saveDeal that fetches the list again whatever the POST's answer
SaveAnswersAlwaysRefreshes(resp) ==
    /\ isSaving
    /\ Len(dealFetches) < MaxFetches
    /\ Becomes(FetchSavedDeals([Cur EXCEPT !.isSaving = FALSE, !.saveAnswer = resp],
                               posts[Len(posts)].token))

\* saveDeal's POST settles (173-180)
SaveAnswers(resp) ==
    /\ isSaving
    /\ resp.ok => Len(dealFetches) < MaxFetches
    /\ LET c == [Cur EXCEPT !.isSaving = FALSE, !.saveAnswer = resp]
       IN Becomes(IF resp.kind = "http" /\ resp.ok
                  THEN FetchSavedDeals(c, posts[Len(posts)].token)
                  ELSE c)

InitIdleCall ==
    /\ url = <<>>
    /\ isAnalyzing = FALSE
    /\ analysis = NullV
    /\ error = NullV
    /\ showHistory = FALSE
    /\ pc = "idle"
    /\ reqUrl = <<>>
    /\ retryCount = 0
    /\ rec = NoValue
    /\ timer = -1
    /\ outcome = NoValue
    /\ modelRequests = <<>>
    /\ attempts = <<>>
    /\ parsed = NoValue
    /\ decodeCalls = <<>>
    /\ recallCalls = <<>>
    /\ decodeAnswer = NoValue
    /\ recallAnswer = NoValue
    /\ vinErrLogged = FALSE
    /\ submits = 0
    /\ savedDeals = <<>>
    /\ isSaving = FALSE
    /\ prevRetried = FALSE
    /\ abandoned = FALSE
    /\ analysisSource = NullV
    /\ posts = <<>>
    /\ authLoading = FALSE
    /\ authError = NullV
    /\ authAnswer = NoValue
    /\ saveAnswer = NoValue
    /\ emptySubmitted = FALSE

\* App.tsx 65-66 and the effect of 85-89 on mount: the session is the one
\* localStorage holds, left there by handleAuthSuccess or removed by
\* handleLogout
InitSession ==
    /\ \/ storedToken = NullV /\ storedUser = NullV
       \/ storedToken = SessionToken /\ storedUser = StrV(JSONstringify(SessionUser))
    /\ token = storedToken
    /\ user = UserFromStorage(storedUser)
    /\ dealFetches = IF Truthy(token) THEN <<token>> ELSE <<>>

\* the page opened with or without a stored session
InitAuth ==
    /\ InitIdleCall
    /\ InitSession
    /\ pText = <<>>
    /\ pStyle = "bare"
    /\ pPlain = NoValue
    /\ pFenced = NoValue

\* the page opened without a stored session
Init ==
    /\ InitIdleCall
    /\ InitSession
    /\ token = NullV
    /\ pText = <<>>
    /\ pStyle = "bare"
    /\ pPlain = NoValue
    /\ pFenced = NoValue

Next ==
    \/ AuthSubmit
    \/ Login
    \/ SubmitEmpty
    \/ \E i \in 1..MaxFetches, resp \in DealsResponses : DealsAnswer(i, resp)
    \/ \E u \in Urls \cup {<<>>} : SetUrl(u)
    \/ HandleAnalyze
    \/ \E resp \in ModelResponses : ModelFails(resp)
    \/ \E resp \in ModelResponses : ModelAnswersNothing(resp)
    \/ \E resp \in ModelResponses : ModelAnswersUnparsable(resp)
    \/ \E resp \in ModelResponses : ModelAnswersJson(resp)
    \/ Tick
    \/ TimerFires
    \/ \E d \in DecodeResponses : DecodeAnswers(d)
    \/ \E r \in RecallResponses : RecallAnswers(r)

Spec == Init /\ [][Next]_vars

\* a step of the running call: a service answers, the clock advances, the
\* timeout fires
CallProgress ==
    \/ \E resp \in ModelResponses :
          ModelFails(resp) \/ ModelAnswersNothing(resp)
              \/ ModelAnswersUnparsable(resp) \/ ModelAnswersJson(resp)
    \/ Tick
    \/ TimerFires
    \/ \E d \in DecodeResponses : DecodeAnswers(d)
    \/ \E r \in RecallResponses : RecallAnswers(r)

\* Every external call settles and the timer runs: a call that can take a
\* step is not left waiting forever.
SpecLive == Spec /\ WF_vars(CallProgress)

-----------------------------------------------------------------------------
(* The whole page: every control of the App, with a few answers of each kind *)

AppModelResponses ==
    { RateLimitError }
    \cup { [kind |-> "text", text |-> t] :
              t \in { Listing(VinLength, TRUE, PlainPitch) } }

AppDecodeResponses ==
    { [kind |-> "json", body |-> ObjV(<<"Results">> :> ArrV(<<FactoryData>>))] }

AppRecallResponses ==
    { [kind |-> "json", body |-> ObjV(<<"results">> :> ArrV(<<Recall("20V001"), Recall("19V555")>>))] }

NextApp ==
    \/ AuthSubmit
    \/ Login
    \/ Logout
    \/ \E i \in 1..MaxFetches, resp \in DealsResponses : DealsAnswer(i, resp)
    \/ HeaderReset
    \/ ToggleHistory
    \/ \E i \in 1..MaxFetches : OpenDeal(i)
    \/ SaveDeal
    \/ \E resp \in SaveResponses : SaveAnswers(resp)
    \/ \E u \in Urls : SetUrl(u)
    \/ HandleAnalyze
    \/ \E resp \in AppModelResponses : ModelFails(resp)
    \/ \E resp \in AppModelResponses : ModelAnswersJson(resp)
    \/ Tick
    \/ TimerFires
    \/ \E d \in AppDecodeResponses : DecodeAnswers(d)
    \/ \E r \in AppRecallResponses : RecallAnswers(r)

SpecApp == Init /\ [][NextApp]_vars

-----------------------------------------------------------------------------
(* The session alone: signing in and out around the page's controls that   *)
(* need no analysis                                                         *)

NextAuth ==
    \/ AuthSubmit
    \/ Login
    \/ \E resp \in AuthFailures : AuthFails(resp)
    \/ Logout
    \/ \E i \in 1..MaxFetches, resp \in DealsResponses : DealsAnswer(i, resp)
    \/ ToggleHistory
    \/ \E i \in 1..MaxFetches : OpenDeal(i)
    \/ HeaderReset
    \/ SaveDeal
    \/ \E resp \in SaveResponses : SaveAnswers(resp)
    \/ \E u \in Urls \cup {<<>>} : SetUrl(u)

SpecAuth == InitAuth /\ [][NextAuth]_vars

-----------------------------------------------------------------------------
(* The fence-stripping and parsing step on its own: geminiService.ts 88-94 *)

InitParse ==
    /\ InitIdleCall
    /\ InitSession
    /\ token = NullV
    /\ pText \in JsonTexts
    /\ pStyle \in FenceStyles
    /\ pPlain = NoValue
    /\ pFenced = NoValue

ParsePlain ==
    /\ pPlain = NoValue
    /\ pPlain' = CleanAndParse(pText)
    /\ UNCHANGED <<appVars, authVars, storeVars, callVars, worldVars, pText, pStyle, pFenced>>

ParseFenced ==
    /\ pFenced = NoValue
    /\ pFenced' = CleanAndParse(Wrap(pStyle, pText))
    /\ UNCHANGED <<appVars, authVars, storeVars, callVars, worldVars, pText, pStyle, pPlain>>

NextParse == ParsePlain \/ ParseFenced

SpecParse == InitParse /\ [][NextParse]_vars

\* C3: a JSON text wrapped in code fences, with or without the json tag,
\* parses to the same object as the text itself.
FencedParsesAsPlain ==
    (pPlain # NoValue /\ pFenced # NoValue) => pFenced = pPlain

\* the same, for the fences that carry the json tag, on texts holding no fence
TaggedFenceParsesAsPlain ==
    (/\ pPlain # NoValue
     /\ pFenced # NoValue
     /\ pStyle \in {"json-newline", "json"}
     /\ ~Includes(pText, Fence)) => (pFenced = pPlain /\ pPlain.ok)

-----------------------------------------------------------------------------
(* Properties of the analysis pipeline *)

Settled == pc = "idle" /\ outcome # NoValue
ReturnedOk == Settled /\ outcome.kind = "ok"

\* the decode call failed: it rejected, its body was not JSON, or the JSON
\* held no first result
DecodeFailed ==
    /\ decodeAnswer # NoValue
    /\ \/ decodeAnswer.kind # "json"
       \/ Get(decodeAnswer.body, "Results").t # "arr"
       \/ Len(Get(decodeAnswer.body, "Results").a) = 0

\* the decode call answered with a Results list that is empty
DecodeEmptyResults ==
    /\ decodeAnswer # NoValue
    /\ decodeAnswer.kind = "json"
    /\ Get(decodeAnswer.body, "Results") = ArrV(<<>>)

\* the recall call failed: it rejected, or its body was not a JSON object
RecallFailed ==
    /\ recallAnswer # NoValue
    /\ (recallAnswer.kind # "json" \/ recallAnswer.body.t # "obj")

\* a and b are objects that agree on every property other than k
SameExcept(a, b, k) ==
    /\ a.t = "obj"
    /\ b.t = "obj"
    /\ (DOMAIN a.o) \ {k} = (DOMAIN b.o) \ {k}
    /\ \A x \in (DOMAIN b.o) \ {k} : a.o[x] = b.o[x]

FactoryKeys ==
    { <<"manufacturer">>, <<"plantCountry">>, <<"bodyClass">>, <<"engineHP">>, <<"fuelType">> }

\* the decode service's field that each vinData key is read from
SourceField(k) ==
    CASE k = <<"manufacturer">> -> "Manufacturer"
      [] k = <<"plantCountry">> -> "PlantCountry"
      [] k = <<"bodyClass">>    -> "BodyClass"
      [] k = <<"engineHP">>     -> "EngineHP"
      [] k = <<"fuelType">>     -> "FuelTypePrimary"

\* vd holds the first decode result's five factory fields
HoldsFactoryFields(vd) ==
    /\ vd.t = "obj"
    /\ \A k \in FactoryKeys :
          /\ k \in DOMAIN vd.o
          /\ vd.o[k] = Get(Get(decodeAnswer.body, "Results").a[1], SourceField(k))

\* vd holds what the model supplied as accidentHistory and titleStatus
HoldsModelFields(vd) ==
    \A k \in {"accidentHistory", "titleStatus"} :
        Get(vd, k) = Get(Get(parsed, "vinData"), k)

\* a rate-limited first attempt is followed by exactly one more attempt, with
\* the identical request; a rate-limited second attempt rejects the call with
\* that error, and no third attempt is made
RetryInv ==
    /\ Len(modelRequests) <= 2
    /\ Len(modelRequests) = 2 => modelRequests[2] = modelRequests[1]
    /\ (Len(attempts) >= 1 /\ attempts[1].kind = "rateLimit") =>
          \/ pc = "delay" /\ Len(modelRequests) = 1 /\ timer >= 0
          \/ Len(modelRequests) = 2
    /\ (Len(attempts) = 2 /\ attempts[1].kind = "rateLimit" /\ attempts[2].kind = "rateLimit") =>
          /\ Settled
          /\ outcome = [kind |-> "err", message |-> attempts[2].message]

\* the timer is armed with the full delay, only runs down, and the second
\* request is sent only once it has run out
RetryStep ==
    /\ (pc' = "delay" /\ pc # "delay") => timer' = RetryDelayMs
    /\ (Len(modelRequests') = Len(modelRequests) + 1 /\ Len(modelRequests) >= 1) =>
          (pc = "delay" /\ timer = 0)
    /\ (pc = "delay" /\ pc' = "delay") => timer' <= timer

\* C1: RetryInv holds in every state and RetryStep of every step: one retry,
\* identical, only after the full delay, and never a third attempt.
RetryOnceAfterDelay == []RetryInv /\ [][RetryStep]_vars

RetryWitness ==
    /\ Settled
    /\ Len(attempts) = 2
    /\ attempts[1].kind = "rateLimit"
    /\ attempts[2].kind = "rateLimit"
    /\ outcome.kind = "err"

\* C2: a first attempt that fails with anything but a rate-limit failure of the
\* model call rejects the call at once: no delay, no second model call.
OtherErrorsPropagate ==
    (Len(attempts) >= 1 /\ attempts[1].kind \notin {"rateLimit", "parsed"}) =>
        /\ Len(modelRequests) = 1
        /\ timer = -1
        /\ Settled
        /\ outcome.kind = "err"

\* C4: the decode and recall services are called only for a parsed record whose
\* vin is a string of exactly 17 characters, and such a record always has the
\* decode call made for its vin.
VinGatesEnrichment ==
    /\ (Len(decodeCalls) + Len(recallCalls) > 0) =>
          /\ parsed # NoValue
          /\ Get(parsed, "vin").t = "str"
          /\ Len(Get(parsed, "vin").s) = 17
    /\ (parsed # NoValue /\ Get(parsed, "vin").t = "str" /\ Len(Get(parsed, "vin").s) = 17) =>
          decodeCalls = << Get(parsed, "vin") >>
    /\ Len(decodeCalls) <= 1
    /\ Len(recallCalls) <= 1

VinGateWitness ==
    /\ pc = "decode"
    /\ decodeCalls = << StrV(Rep("V", 17)) >>

\* C5: when a lookup fails the call still resolves, and the record it returns
\* equals the parsed record in every field other than vinData.
EnrichmentFailureKeepsFields ==
    (pc = "idle" /\ (DecodeFailed \/ RecallFailed)) =>
        /\ ReturnedOk
        /\ SameExcept(outcome.val, parsed, <<"vinData">>)
        /\ analysis = outcome.val

EnrichmentFailureWitness ==
    /\ ReturnedOk
    /\ RecallFailed
    /\ recallAnswer.kind = "reject"

\* C6: when both lookups succeed, the returned vinData holds the first decode
\* result's factory fields, the recall service's results list as recalls, and
\* the accidentHistory and titleStatus the model supplied; it exists even when
\* the model supplied no vinData.
MergedVinData ==
    (/\ pc = "idle"
     /\ decodeAnswer # NoValue
     /\ ~DecodeFailed
     /\ recallAnswer # NoValue
     /\ ~RecallFailed
     /\ Get(recallAnswer.body, "results").t = "arr") =>
        /\ ReturnedOk
        /\ SameExcept(outcome.val, parsed, <<"vinData">>)
        /\ HoldsFactoryFields(Get(outcome.val, "vinData"))
        /\ HoldsModelFields(Get(outcome.val, "vinData"))
        /\ Get(Get(outcome.val, "vinData"), "recalls") = Get(recallAnswer.body, "results")

MergedVinDataWitness ==
    /\ ReturnedOk
    /\ Get(Get(parsed, "vinData"), "titleStatus") = StrV(<<"Clean">>)
    /\ Get(Get(outcome.val, "vinData"), "titleStatus") = StrV(<<"Clean">>)
    /\ Get(Get(outcome.val, "vinData"), "manufacturer") = StrV(<<"Honda">>)
    /\ LengthOf(Get(Get(outcome.val, "vinData"), "recalls")) = 2

\* C7: a failure of one lookup never keeps the other from being issued and
\* collected: after a failed decode the recall lookup has still been made, and
\* after a failed recall the factory fields are still in vinData.
LookupsIndependent ==
    /\ (pc = "idle" /\ DecodeFailed) => Len(recallCalls) = 1
    /\ (pc = "idle" /\ RecallFailed) => HoldsFactoryFields(Get(outcome.val, "vinData"))

\* C8 as stated: when enrichment fails the returned record is the parsed
\* record, vinData included.
EnrichmentFailureReturnsParsed ==
    (pc = "idle" /\ (DecodeFailed \/ RecallFailed)) =>
        (ReturnedOk /\ outcome.val = parsed)

\* C8 as amended: when enrichment fails the returned record equals the parsed
\* record outside vinData.  vinData is as parsed when the decode call failed,
\* except that an empty Results list turns an absent vinData into an empty
\* object; when only the recall lookup failed, vinData is the model's vinData
\* with the five factory fields added and nothing else.
EnrichmentFailureRecord ==
    /\ (pc = "idle" /\ DecodeFailed) =>
          /\ ReturnedOk
          /\ outcome.val =
                IF DecodeEmptyResults /\ ~Truthy(Get(parsed, "vinData"))
                THEN ObjV(Put(parsed.o, <<"vinData">>, ObjV(EmptyObj)))
                ELSE parsed
    /\ (pc = "idle" /\ RecallFailed) =>
          /\ ReturnedOk
          /\ SameExcept(outcome.val, parsed, <<"vinData">>)
          /\ HoldsFactoryFields(Get(outcome.val, "vinData"))
          /\ DOMAIN Get(outcome.val, "vinData").o =
                (DOMAIN Spread(Get(parsed, "vinData"))) \cup FactoryKeys
          /\ \A k \in (DOMAIN Spread(Get(parsed, "vinData"))) \ FactoryKeys :
                Get(outcome.val, "vinData").o[k] = Get(parsed, "vinData").o[k]

EnrichmentFailureRecordWitness ==
    /\ ReturnedOk
    /\ RecallFailed
    /\ outcome.val # parsed
    /\ <<"recalls">> \notin DOMAIN Get(outcome.val, "vinData").o

\* C9: the displayed error is always one of the two fixed user-facing messages.
OnlyFixedMessagesShown ==
    Truthy(error) => error.s \in {RateLimitMessage, GenericMessage}

\* the keys the CarAnalysis interface requires (lines 5-25)
RequiredKeys ==
    { "make", "model", "year", "price", "mileage", "location", "condition",
      "dealRating", "dealScore", "summary", "redFlags", "pros", "cons",
      "marketComparison", "negotiationPitch" }

HasExpectedShape(v) ==
    /\ v.t = "obj"
    /\ \A k \in RequiredKeys : <<k>> \in DOMAIN v.o

\* C10: a response that is valid JSON of another shape rejects the call.
WrongShapeRejected ==
    (Settled /\ Len(attempts) >= 1 /\ attempts[Len(attempts)].kind = "parsed"
             /\ ~HasExpectedShape(parsed)) => outcome.kind = "err"

-----------------------------------------------------------------------------
(* Calls made per analysis; the page while an analysis runs *)

\* C11: for one analyzeCarListing call the model service is invoked at least
\* once and at most twice, the decode service at most once and the recall
\* service at most once.
ServiceCallsBounded ==
    submits > 0 =>
        /\ Len(modelRequests) >= 1
        /\ Len(modelRequests) <= 2
        /\ Len(decodeCalls) <= 1
        /\ Len(recallCalls) <= 1

ServiceCallsWitness ==
    /\ Settled
    /\ Len(modelRequests) = 2
    /\ Len(decodeCalls) = 1
    /\ Len(recallCalls) = 1

\* C12: while isAnalyzing is true, which is exactly while a call is in
\* flight, no control of the page starts another analysis.
AnalyzingBlocksAnalyze ==
    /\ [](isAnalyzing <=> pc # "idle")
    /\ [][submits' > submits => (~isAnalyzing /\ pc = "idle")]_vars

\* a second analysis was started, after the first one had ended in an error
AnalyzingBlocksWitness ==
    /\ submits = 2
    /\ isAnalyzing
    /\ outcome = NoValue
    /\ Len(attempts) = 1

\* C13: when the user left the analysis while its call was in flight (logout,
\* header logo, a saved deal opened), the call's completion changes neither
\* the analysis nor the error the page holds.
AbandonedCompletionDiscarded ==
    [][(abandoned /\ pc # "idle" /\ pc' = "idle")
          => (analysis' = analysis /\ error' = error)]_vars

-----------------------------------------------------------------------------
(* One call and the calls before it *)

\* the state in which the first analysis of a session, for url u, awaits the model
FirstCall(u) ==
    [url |-> u, isAnalyzing |-> TRUE, analysis |-> NullV, error |-> NullV,
     showHistory |-> FALSE,
     pc |-> "model", reqUrl |-> u, retryCount |-> 0, rec |-> NoValue, timer |-> -1,
     outcome |-> NoValue,
     modelRequests |-> <<Request(u)>>, attempts |-> <<>>, parsed |-> NoValue,
     decodeCalls |-> <<>>, recallCalls |-> <<>>,
     decodeAnswer |-> NoValue, recallAnswer |-> NoValue,
     vinErrLogged |-> FALSE, submits |-> 1,
     token |-> SessionToken, savedDeals |-> <<>>, isSaving |-> FALSE,
     prevRetried |-> FALSE, abandoned |-> FALSE,
     analysisSource |-> NullV, dealFetches |-> <<>>, posts |-> <<>>,
     user |-> SessionUser, authLoading |-> FALSE, authError |-> NullV,
     storedToken |-> SessionToken, storedUser |-> StrV(JSONstringify(SessionUser)),
     authAnswer |-> NoValue, saveAnswer |-> NoValue, emptySubmitted |-> FALSE]

\* the call state c, awaiting the model, is given the answers this call
\* received from its i-th attempt on
RECURSIVE ReplayFrom(_, _)
ReplayFrom(c, i) ==
    LET att == attempts[i] IN
    IF att.kind = "parsed"
    THEN LET c1 == AfterParse(c, parsed) IN
         IF c1.pc = "idle" \/ decodeAnswer = NoValue THEN c1
         ELSE LET c2 == AfterDecode(c1, decodeAnswer) IN
              IF c2.pc = "idle" \/ recallAnswer = NoValue THEN c2
              ELSE AfterRecall(c2, recallAnswer)
    ELSE LET c1 == Caught(c, att.message, att.kind) IN
         IF c1.pc = "idle" \/ i = Len(attempts) THEN c1
         ELSE ReplayFrom([c1 EXCEPT !.pc = "model",
                                    !.timer = -1,
                                    !.retryCount = @ + 1,
                                    !.modelRequests = Append(@, Request(c.reqUrl))],
                         i + 1)

\* what a first call for the same url makes of the answers this call received
Replayed == IF attempts = <<>> THEN FirstCall(reqUrl) ELSE ReplayFrom(FirstCall(reqUrl), 1)

CallStartsFresh ==
    submits' > submits =>
        /\ retryCount' = 0
        /\ rec' = NoValue
        /\ parsed' = NoValue
        /\ outcome' = NoValue
        /\ timer' = -1
        /\ attempts' = <<>>
        /\ modelRequests' = <<Request(url)>>
        /\ decodeCalls' = <<>> /\ recallCalls' = <<>>
        /\ decodeAnswer' = NoValue /\ recallAnswer' = NoValue

\* C14: whatever calls came before, a call starts with retry count 0 and no
\* record, a rate-limited first attempt is retried, and the call settles with
\* the outcome, record and requests of a first call given the same answers.
CallsIndependent ==
    /\ [][CallStartsFresh]_vars
    /\ [](Len(attempts) >= 1 /\ attempts[1].kind = "rateLimit"
             => (pc = "delay" \/ Len(modelRequests) = 2))
    /\ [](Settled =>
             /\ outcome = Replayed.outcome
             /\ rec = Replayed.rec
             /\ modelRequests = Replayed.modelRequests
             /\ decodeCalls = Replayed.decodeCalls
             /\ recallCalls = Replayed.recallCalls)

\* the second call, made after a call that used its retry, is retried
CallsIndependentWitness ==
    /\ submits = 2
    /\ prevRetried
    /\ Settled
    /\ Len(attempts) = 2
    /\ attempts[2].kind = "parsed"

\* C15: the call returns only when each enrichment fetch it sent has been
\* answered or has failed, and once it has returned no enrichment answer
\* arrives and the record stays as returned.
ReturnsAfterEnrichment ==
    /\ [](Settled =>
             /\ Len(decodeCalls) = 1 => decodeAnswer # NoValue
             /\ Len(recallCalls) = 1 => recallAnswer # NoValue)
    /\ [][(pc = "idle" /\ submits' = submits) =>
             /\ outcome' = outcome
             /\ rec' = rec
             /\ decodeAnswer' = decodeAnswer
             /\ recallAnswer' = recallAnswer]_vars

\* a call returned the record with the recalls merged in, and the page moved on
ReturnsAfterEnrichmentWitness ==
    /\ ReturnedOk
    /\ Len(decodeCalls) = 1 /\ decodeAnswer.kind = "json"
    /\ Len(recallCalls) = 1 /\ recallAnswer.kind = "json"
    /\ outcome.val = rec
    /\ url # reqUrl

-----------------------------------------------------------------------------
(* Saved deals *)

\* the members of a CarAnalysis (geminiService.ts 5-37)
CarAnalysisKeys == RequiredKeys \cup {"vin", "vinData"}

\* C16: the posted deal record carries every field of the analysis that was
\* displayed when Save was pressed, with the value it has there.
SavedDealCarriesAnalysis ==
    \A i \in 1..Len(posts) :
        \A k \in CarAnalysisKeys :
            Get(posts[i].body, k) = Get(posts[i].saved, k)

\* C17: the url posted with a deal record is the URL that was submitted to
\* produce the analysis being saved.
PostedUrlIsSource ==
    \A i \in 1..Len(posts) : Get(posts[i].body, "url") = posts[i].source

\* C18: a POST to the deal store is sent only by a step of the Save action,
\* taken while an analysis is displayed and a token is held; it carries that
\* token, and the step completes no analysis, logs nobody in, opens no deal
\* and refreshes no list.
OnlySavePosts ==
    [][Len(posts') > Len(posts) =>
          /\ Truthy(analysis) /\ ~isAnalyzing
          /\ Truthy(token)
          /\ Len(posts') = Len(posts) + 1
          /\ posts'[Len(posts')].token = token
          /\ ~isSaving /\ isSaving'
          /\ analysis' = analysis /\ token' = token /\ pc' = pc
          /\ savedDeals' = savedDeals /\ dealFetches' = dealFetches]_vars

\* a deal was saved, the list was fetched again and shows it
OnlySavePostsWitness ==
    /\ Len(posts) = 1
    /\ posts[1].token = SessionToken
    /\ ~isSaving
    /\ Len(savedDeals) = 1
    /\ dealFetches = <<>>

-----------------------------------------------------------------------------
(* Fence stripping on texts that carry no fence of their own *)

\* C19: a response text that is not wrapped in code fences, its string values
\* holding fence marks or not, is parsed as JSON.parse parses it untouched.
UnfencedParsedUnchanged ==
    pPlain # NoValue => pPlain = JSONparse(pText)

-----------------------------------------------------------------------------
(* The message shown for a failed analysis *)

\* every attempt of the call was turned down for rate limiting
RateLimitedOut ==
    /\ Len(attempts) = MaxRetries + 1
    /\ \A i \in 1..Len(attempts) : attempts[i].kind = "rateLimit"

\* C20: a failed call shows the rate-limit message when, and only when, all
\* its attempts were rate-limited, and the generic message otherwise;
\* analysis stays null and isAnalyzing is false again.
FailureMessageMatchesCause ==
    (Settled /\ outcome.kind = "err") =>
        /\ error = StrV(IF RateLimitedOut THEN RateLimitMessage ELSE GenericMessage)
        /\ analysis = NullV
        /\ ~isAnalyzing

-----------------------------------------------------------------------------
(* The session *)

\* C21: a step that starts an analysis, a deal-list request or a save-deal
\* request is taken only with a session token held.
RequestsNeedToken ==
    [][(\/ submits' > submits
        \/ Len(posts') > Len(posts)
        \/ Len(dealFetches') > Len(dealFetches)) => (Truthy(token) \/ Truthy(token'))]_vars

-----------------------------------------------------------------------------
(* Enrichment and the retry *)

\* C22: once a model response has been parsed, no step of the call sends
\* another model request or starts the retry delay, whatever the enrichment
\* calls answer; the call ends by returning a record.
EnrichmentNeverRetries ==
    /\ []((Len(attempts) >= 1 /\ attempts[Len(attempts)].kind = "parsed")
             => (pc \in {"decode", "recall", "idle"} /\ timer = -1))
    /\ [][(pc = "decode" \/ pc = "recall") =>
             /\ modelRequests' = modelRequests
             /\ attempts' = attempts
             /\ retryCount' = retryCount
             /\ timer' = -1
             /\ pc' \in {"decode", "recall", "idle"}
             /\ (pc' = "idle" => outcome'.kind = "ok")]_vars

\* an enrichment call failed in a call that had its retry left
EnrichmentNeverRetriesWitness ==
    /\ ReturnedOk
    /\ retryCount = 0
    /\ Len(modelRequests) = 1
    /\ vinErrLogged
    /\ \/ (decodeAnswer # NoValue /\ decodeAnswer.kind = "badjson")
       \/ (recallAnswer # NoValue /\ recallAnswer.kind = "reject")

-----------------------------------------------------------------------------
(* Every analysis ends *)

CompletionSetsOne ==
    (isAnalyzing /\ ~isAnalyzing') =>
        \/ /\ outcome'.kind = "ok"
           /\ analysis' = outcome'.val
           /\ analysis' # NullV
           /\ error' = NullV
        \/ /\ outcome'.kind = "err"
           /\ Truthy(error')
           /\ analysis' = NullV

\* C23: with every external call settling, isAnalyzing, once true, becomes
\* false again, and the step that clears it has set the analysis (success)
\* or the error (failure), not both.
AnalysisFinishes ==
    /\ isAnalyzing ~> ~isAnalyzing
    /\ [][CompletionSetsOne]_vars

\* an analysis ended after its retry
AnalysisFinishesWitness ==
    /\ submits >= 1
    /\ ~isAnalyzing
    /\ Settled
    /\ Len(attempts) = 2

-----------------------------------------------------------------------------
(* What the page holds *)

\* C24: error and analysis are never both set.
ErrorOrAnalysis ==
    ~(analysis # NullV /\ error # NullV)

\* C25: without a token held, savedDeals is empty: no deal list asked for
\* under an earlier session is put there after the logout.
DealsOnlyWithToken ==
    ~Truthy(token) => savedDeals = <<>>

\* C26: the session in memory is the session in localStorage: token and
\* user are both held and both stored, with the same values, or neither is
\* held nor stored.
SessionMatchesStorage ==
    /\ token = storedToken
    /\ user = UserFromStorage(storedUser)
    /\ (token # NullV) <=> (user # NullV)
    /\ (storedToken # NullV) <=> (storedUser # NullV)

\* handleAuthSuccess has run on the session endpoint's answer
SessionMatchesStorageWitness ==
    /\ authAnswer = SessionGranted
    /\ token = SessionToken
    /\ user = SessionUser
    /\ storedUser = StrV(<<"{", "\"", "email", "\"", ":", "\"", "ann@example.com", "\"", "}">>)

\* the session endpoint answered with an OK status and a body that parsed
AnswerGrants(a) == a.kind = "json" /\ a.ok

AuthAnswerStep ==
    (authLoading /\ ~authLoading') =>
        IF AnswerGrants(authAnswer')
        THEN /\ token' = Get(authAnswer'.body, "token")
             /\ user' = Get(authAnswer'.body, "user")
        ELSE /\ Truthy(authError')
             /\ token' = NullV /\ user' = NullV
             /\ storedToken' = NullV /\ storedUser' = NullV
             /\ dealFetches' = dealFetches

\* C27: a token reaches the App only from an answer of the session endpoint
\* with an OK status; any other end of handleSubmit shows an error and
\* leaves the session absent; isLoading is false once the endpoint answered.
AuthOnlyOnOk ==
    /\ [][AuthAnswerStep]_vars
    /\ [][(token' # token /\ token' # NullV) => (authLoading /\ AnswerGrants(authAnswer'))]_vars
    /\ [](authAnswer # NoValue => ~authLoading)

\* the endpoint refused the credentials
AuthOnlyOnOkWitness ==
    /\ authAnswer # NoValue
    /\ ~authAnswer.ok
    /\ authError = StrV(<<"Invalid credentials">>)
    /\ ~authLoading
    /\ token = NullV

\* C28: handleAnalyze run with an empty url calls nothing and leaves
\* isAnalyzing, error, analysis and showHistory as they are; no analysis is
\* ever started for an empty url.
EmptySubmitIsNoOp ==
    /\ [][(emptySubmitted' /\ ~emptySubmitted) =>
             /\ url = <<>>
             /\ submits' = submits
             /\ modelRequests' = modelRequests
             /\ pc' = pc
             /\ isAnalyzing' = isAnalyzing
             /\ error' = error
             /\ analysis' = analysis
             /\ showHistory' = showHistory]_vars
    /\ [][submits' > submits => (url # <<>> /\ reqUrl' # <<>>)]_vars

\* Try Again was pressed on an emptied URL input
EmptySubmitWitness ==
    /\ emptySubmitted
    /\ url = <<>>
    /\ Truthy(error)
    /\ ~isAnalyzing
    /\ pc = "idle"

-----------------------------------------------------------------------------
(* A save that fails *)

SaveFailed(a) == ~(a.kind = "http" /\ a.ok)

\* C29: when the deal store answers a save with a non-OK status, or the
\* request fails, savedDeals, analysis and error stay as they are and no
\* deal-list request is sent; isSaving is false after every answer.
FailedSaveChangesNothing ==
    /\ [][(isSaving /\ ~isSaving' /\ SaveFailed(saveAnswer')) =>
             /\ savedDeals' = savedDeals
             /\ analysis' = analysis
             /\ error' = error
             /\ dealFetches' = dealFetches]_vars
    /\ [][saveAnswer' # saveAnswer => (isSaving' <=> saveAnswer' = NoValue)]_vars
    /\ [](saveAnswer # NoValue => ~isSaving)

\* the save of a displayed analysis was refused
FailedSaveWitness ==
    /\ saveAnswer # NoValue
    /\ saveAnswer.kind = "http" /\ ~saveAnswer.ok
    /\ ~isSaving
    /\ Truthy(analysis)
    /\ Len(posts) = 1
    /\ dealFetches = <<>>
    /\ submits > 0

-----------------------------------------------------------------------------
(* A recall answer without a results list *)

\* the recall service answered a JSON object that has no results member
RecallWithoutResults ==
    /\ recallAnswer # NoValue
    /\ recallAnswer.kind = "json"
    /\ recallAnswer.body.t = "obj"
    /\ Get(recallAnswer.body, "results") = Undefined

\* C30: when the decode succeeded and the recall answer carries no results
\* list, the returned record's vinData.recalls is the empty list and the
\* factory fields of the decode answer are in vinData.
NoResultsGivesEmptyRecalls ==
    (ReturnedOk /\ RecallWithoutResults) =>
        /\ Get(Get(outcome.val, "vinData"), "recalls") = ArrV(<<>>)
        /\ HoldsFactoryFields(Get(outcome.val, "vinData"))
        /\ analysis = outcome.val

NoResultsWitness ==
    /\ ReturnedOk
    /\ RecallWithoutResults
    /\ ~vinErrLogged
    /\ <<"recalls">> \in DOMAIN Get(outcome.val, "vinData").o

=============================================================================
